---- MODULE Spec2Model ----
(***************************************************************************)
(* The FeedbackGraphQL resolvers (src/schema.js) over the Mongoose models  *)
(* User, Product, Feedback and AuditLog, with the request context of the   *)
(* Apollo server (the decoded JWT payload is the caller).                  *)
(*                                                                         *)
(* A resolver is one atomic action where its awaits run one after another  *)
(* with no other request in between; the feedback resolvers and the cron   *)
(* sweep are also modelled await by await, interleaved through calls.      *)
(***************************************************************************)
EXTENDS Integers, Sequences, FiniteSets, TLC

VARIABLES
    users,      \* User collection: _id -> row
    products,   \* Product collection: _id -> row
    feedbacks,  \* Feedback collection: _id -> row
    auditLog,   \* AuditLog collection, in insertion order
    sessions,   \* JWT payloads signed so far (what a caller can present)
    counter,    \* next fresh ObjectId per collection, next crypto.randomBytes value
    now,        \* Date.now()
    last,       \* outcome of the last request: resolver, caller, error, payload
    calls       \* requests and cron runs in flight: where each stands between awaits

vars == <<users, products, feedbacks, auditLog, sessions, counter, now, last, calls>>

----------------------------------------------------------------------------
(* Bounds of the model *)

MaxUsers == 3
MaxProducts == 1
MaxFeedbacks == 1
MaxRated == 3
MaxAudit == 1
MaxRand == 3
MaxTicks == 2
MaxAccounts == 2
MaxResets == 2
MaxSwept == 4
MaxCalls == 2

(* Program constants *)

Undefined == 0
ResetTokenTtl == 3600000
JwtTtl == 86400000
CleanupMinCount == 3
CleanupMaxRating == 1
MinRating == 1
MaxRating == 5

----------------------------------------------------------------------------
(* Values *)

Null == "null"
Roles == {"user", "admin"}
OK == "ok"

\* bcrypt.hash / bcrypt.compare
Hash(password) == <<"bcrypt", password>>
Compare(password, hashed) == hashed = Hash(password)

\* jwt.sign({ id, role }, secret, { expiresIn: '1d' })
JwtSign(id, role, t) == [id |-> id, role |-> role, exp |-> t + JwtTtl]

\* the request without a usable Authorization header, and its context
NoToken == [id |-> Undefined, role |-> "none", exp |-> 0]
NoUser == [id |-> Undefined, role |-> "none"]

\* context: jwt.verify throws on a missing, malformed or expired token and
\* user stays undefined; else user is the decoded payload
Context(token, t) ==
    IF token = NoToken \/ t >= token.exp
    THEN NoUser
    ELSE [id |-> token.id, role |-> token.role]

\* the guard that only asks for a caller
NotAdminAnyCaller(user) == user = NoUser

\* !user || user.role !== 'admin'
NotAdmin(user) == user = NoUser \/ user.role # "admin"

\* !user || user.role === 'admin'
NotPlainUser(user) == user = NoUser \/ user.role = "admin"

\* rating < 1 || rating > 5
RatingOutOfRange(rating) == rating < MinRating \/ rating > MaxRating

\* the ownership test left out
NotOwnerNever(feedback, user) == FALSE

\* the test of deleteFeedback, which lets an admin through
NotOwnerNorAdmin(feedback, user) == user.role # "admin" /\ feedback.userId # user.id

\* feedback.userId.toString() !== user.id.toString()
NotOwner(feedback, user) == feedback.userId # user.id

\* an optional argument: None when the request leaves it out
None == <<>>
Some(v) == <<v>>

\* a ?? b
Coalesce(a, b) == IF a = None THEN b ELSE a[1]

----------------------------------------------------------------------------
(* Rating Aggregator *)

RECURSIVE Gcd(_, _)
Gcd(a, b) == IF b = 0 THEN a ELSE Gcd(b, a % b)

\* the division done on integers
RatioTruncated(sum, n) == <<sum \div n, 1>>

\* the Number sum / length as the fraction in lowest terms
Ratio(sum, n) ==
    LET g == Gcd(IF sum < 0 THEN -sum ELSE sum, n)
    IN  <<sum \div g, n \div g>>

Zero == <<0, 1>>

\* deleteProduct as first written, without Feedback.deleteMany
FeedbacksOfNone(fbs, productId) == {}

\* Feedback.find({ productId }), Feedback.deleteMany({ productId })
FeedbacksOf(fbs, productId) == {f \in DOMAIN fbs : fbs[f].productId = productId}

RECURSIVE SumRatings(_, _)
SumRatings(fbs, S) ==
    IF S = {} THEN 0
    ELSE LET f == CHOOSE x \in S : TRUE
         IN  fbs[f].rating + SumRatings(fbs, S \ {f})

Average(fbs, productId) ==
    LET S == FeedbacksOf(fbs, productId)
    IN  IF Cardinality(S) = 0 THEN Zero
        ELSE Ratio(SumRatings(fbs, S), Cardinality(S))

\* Product.findByIdAndUpdate(productId, { averageRating: avg }): no row, no write
UpdateAverageRating(prods, fbs, productId) ==
    IF productId \in DOMAIN prods
    THEN [prods EXCEPT ![productId].averageRating = Average(fbs, productId)]
    ELSE prods

----------------------------------------------------------------------------
(* Audit Recorder *)

\* logAudit: AuditLog.create inside try/catch; ok = FALSE is the write failing
LogAudit(log, user, action, details, ok) ==
    IF ok
    THEN Append(log, [userId |-> user.id, action |-> action, details |-> details])
    ELSE log

\* the catch block that passes the error on
AuditErrorRethrown(ok) == IF ok THEN OK ELSE "AuditLog error"

\* catch (err) { console.error('AuditLog error:', err) }: what the resolver that
\* awaited logAudit sees of the write
AuditError(ok) == OK

\* the collection is capped in the model: a write to a full log fails
AuditMay(ok) == ok => Len(auditLog) < MaxAudit

----------------------------------------------------------------------------
(* Rows and outcomes *)

Remove(coll, S) == [i \in DOMAIN coll \ S |-> coll[i]]
Insert(coll, id, row) == [i \in DOMAIN coll \cup {id} |-> IF i = id THEN row ELSE coll[i]]

\* token is the AuthPayload's token; mail tells whether transporter.sendMail
\* was called and delivered ("sent"), threw ("failed") or was not called
Outcome(op, user, err) ==
    [op |-> op, caller |-> user.role, err |-> err, token |-> NoToken, mail |-> "none"]

\* the resolver ends before any write: throw new Error(err), or an early
\* return (err = OK)
Reject(op, user, err) ==
    /\ last' = Outcome(op, user, err)
    /\ UNCHANGED <<users, products, feedbacks, auditLog, sessions, counter, now, calls>>

----------------------------------------------------------------------------
(* Product and feedback mutations *)

AddProduct(token, name, ok) ==
    LET user == Context(token, now) IN
    IF NotAdmin(user) THEN Reject("addProduct", user, "Unauthorized")
    ELSE /\ AuditMay(ok)
         /\ products' = Insert(products, counter.product,
                               [name |-> name, averageRating |-> Zero])
         /\ auditLog' = LogAudit(auditLog, user, "addProduct",
                                 "Added product: " \o name, ok)
         /\ counter' = [counter EXCEPT !.product = @ + 1]
         /\ last' = Outcome("addProduct", user, AuditError(ok))
         /\ UNCHANGED <<users, feedbacks, sessions, now, calls>>

AddFeedback(token, productId, rating, comment, ok) ==
    LET user == Context(token, now) IN
    IF NotPlainUser(user) THEN Reject("addFeedback", user, "Unauthorized")
    ELSE IF RatingOutOfRange(rating)
         THEN Reject("addFeedback", user, "Rating must be 1-5")
    ELSE IF productId \notin DOMAIN products
         THEN Reject("addFeedback", user, "Product not found")
    ELSE LET id == counter.feedback
             fbs == Insert(feedbacks, id,
                       [userId |-> user.id, productId |-> productId,
                        rating |-> rating, comment |-> Coalesce(comment, Null)])
         IN  /\ AuditMay(ok)
             /\ feedbacks' = fbs
             /\ products' = UpdateAverageRating(products, fbs, productId)
             /\ auditLog' = LogAudit(auditLog, user, "addFeedback",
                               "Added feedback for product " \o ToString(productId)
                                  \o ": " \o ToString(rating) \o " stars", ok)
             /\ counter' = [counter EXCEPT !.feedback = @ + 1]
             /\ last' = Outcome("addFeedback", user, AuditError(ok))
             /\ UNCHANGED <<users, sessions, now, calls>>

\* Product.findByIdAndUpdate(id, { name, description }, { new: true })
UpdateProduct(token, id, name) ==
    LET user == Context(token, now) IN
    IF NotAdmin(user) THEN Reject("updateProduct", user, "Unauthorized")
    ELSE /\ products' = IF id \in DOMAIN products
                        THEN [products EXCEPT ![id].name = name]
                        ELSE products
         /\ last' = Outcome("updateProduct", user, OK)
         /\ UNCHANGED <<users, feedbacks, auditLog, sessions, counter, now, calls>>

\* user.id of an undefined user is a TypeError, reached only when the row exists
UpdateFeedback(token, id, rating, comment, ok) ==
    LET user == Context(token, now) IN
    IF id \notin DOMAIN feedbacks THEN Reject("updateFeedback", user, "Unauthorized")
    ELSE IF user = NoUser THEN Reject("updateFeedback", user, "TypeError")
    ELSE IF NotOwner(feedbacks[id], user)
         THEN Reject("updateFeedback", user, "Unauthorized")
    ELSE LET fbs == [feedbacks EXCEPT
                       ![id].rating = Coalesce(rating, @),
                       ![id].comment = Coalesce(comment, @)]
             productId == feedbacks[id].productId
         IN  /\ AuditMay(ok)
             /\ feedbacks' = fbs
             /\ products' = UpdateAverageRating(products, fbs, productId)
             /\ auditLog' = LogAudit(auditLog, user, "updateFeedback",
                               "Updated feedback " \o ToString(id) \o " for product "
                                  \o ToString(productId), ok)
             /\ last' = Outcome("updateFeedback", user, AuditError(ok))
             /\ UNCHANGED <<users, sessions, counter, now, calls>>

\* User.findByIdAndUpdate(id, { name, email, role }, { new: true }); an absent
\* argument leaves the field, a taken email violates the unique index
UpdateUser(token, id, email, role) ==
    LET user == Context(token, now) IN
    IF NotAdmin(user) THEN Reject("updateUser", user, "Unauthorized")
    ELSE IF /\ id \in DOMAIN users
            /\ email # None
            /\ \E u \in DOMAIN users \ {id} : users[u].email = email[1]
         THEN Reject("updateUser", user, "E11000 duplicate key")
    ELSE /\ users' = IF id \in DOMAIN users
                     THEN [users EXCEPT ![id].email = Coalesce(email, @),
                                        ![id].role = Coalesce(role, @)]
                     ELSE users
         /\ last' = Outcome("updateUser", user, OK)
         /\ UNCHANGED <<products, feedbacks, auditLog, sessions, counter, now, calls>>

DeleteProduct(token, id, ok) ==
    LET user == Context(token, now) IN
    IF NotAdmin(user) THEN Reject("deleteProduct", user, "Unauthorized")
    ELSE /\ AuditMay(ok)
         /\ products' = Remove(products, {id})
         /\ feedbacks' = Remove(feedbacks, FeedbacksOf(feedbacks, id))
         /\ auditLog' = LogAudit(auditLog, user, "deleteProduct",
                                 "Deleted product " \o ToString(id), ok)
         /\ last' = Outcome("deleteProduct", user, AuditError(ok))
         /\ UNCHANGED <<users, sessions, counter, now, calls>>

\* user.role of an undefined user is a TypeError, reached only when the row exists
DeleteFeedback(token, id, ok) ==
    LET user == Context(token, now) IN
    IF id \notin DOMAIN feedbacks THEN Reject("deleteFeedback", user, "Unauthorized")
    ELSE IF user = NoUser THEN Reject("deleteFeedback", user, "TypeError")
    ELSE IF user.role # "admin" /\ NotOwner(feedbacks[id], user)
         THEN Reject("deleteFeedback", user, "Unauthorized")
    ELSE LET fbs == Remove(feedbacks, {id})
             productId == feedbacks[id].productId
         IN  /\ AuditMay(ok)
             /\ feedbacks' = fbs
             /\ products' = UpdateAverageRating(products, fbs, productId)
             /\ auditLog' = LogAudit(auditLog, user, "deleteFeedback",
                               "Deleted feedback " \o ToString(id) \o " for product "
                                  \o ToString(productId), ok)
             /\ last' = Outcome("deleteFeedback", user, AuditError(ok))
             /\ UNCHANGED <<users, sessions, counter, now, calls>>

\* Feedback.deleteMany({ userId: id })
FeedbacksBy(fbs, userId) == {f \in DOMAIN fbs : fbs[f].userId = userId}

DeleteUser(token, id, ok) ==
    LET user == Context(token, now) IN
    IF NotAdmin(user) THEN Reject("deleteUser", user, "Unauthorized")
    ELSE /\ AuditMay(ok)
         /\ users' = Remove(users, {id})
         /\ feedbacks' = Remove(feedbacks, FeedbacksBy(feedbacks, id))
         /\ auditLog' = LogAudit(auditLog, user, "deleteUser",
                                 "Deleted user " \o ToString(id), ok)
         /\ last' = Outcome("deleteUser", user, AuditError(ok))
         /\ UNCHANGED <<products, sessions, counter, now, calls>>

(* Queries *)

QueryUsers(token) ==
    LET user == Context(token, now) IN
    IF NotAdmin(user) THEN Reject("users", user, "Unauthorized")
    ELSE /\ last' = Outcome("users", user, OK)
         /\ UNCHANGED <<users, products, feedbacks, auditLog, sessions, counter, now, calls>>

\* Query.products recomputes the average of every product before listing
QueryProducts ==
    /\ products' = [p \in DOMAIN products |->
                      [products[p] EXCEPT !.averageRating = Average(feedbacks, p)]]
    /\ last' = Outcome("products", NoUser, OK)
    /\ UNCHANGED <<users, feedbacks, auditLog, sessions, counter, now, calls>>

----------------------------------------------------------------------------
(* Cleanup Sweep: the cron callback *)

\* the test with >= for >
SweepableFrom(fbs, productId) ==
    LET S == FeedbacksOf(fbs, productId)
    IN  /\ Cardinality(S) >= CleanupMinCount
        /\ \A f \in S : fbs[f].rating <= CleanupMaxRating

\* feedbacks.length > 3 && feedbacks.every(f => f.rating <= 1)
Sweepable(fbs, productId) ==
    LET S == FeedbacksOf(fbs, productId)
    IN  /\ Cardinality(S) > CleanupMinCount
        /\ \A f \in S : fbs[f].rating <= CleanupMaxRating

\* Product.find(): the ids of the rows, in insertion order
RECURSIVE Found(_)
Found(S) ==
    IF S = {} THEN <<>>
    ELSE LET m == CHOOSE x \in S : \A y \in S : x <= y
         IN  <<m>> \o Found(S \ {m})

\* the body of the loop for one product: deleteMany, findByIdAndDelete, logAudit(null)
SweepProduct(st, p, ok) ==
    IF Sweepable(st.feedbacks, p)
    THEN [products |-> Remove(st.products, {p}),
          feedbacks |-> Remove(st.feedbacks, FeedbacksOf(st.feedbacks, p)),
          auditLog |-> LogAudit(st.auditLog, NoUser, "monthlyCleanup",
                          "Deleted product " \o ToString(p) \o " with all feedback <=1", ok)]
    ELSE st

\* for (const product of products)
RECURSIVE SweepLoop(_, _, _)
SweepLoop(ids, st, ok) ==
    IF ids = <<>> THEN st
    ELSE SweepLoop(Tail(ids), SweepProduct(st, Head(ids), ok), ok)

\* one run of the callback with no request in between
CleanupSweep(ok) ==
    LET st == SweepLoop(Found(DOMAIN products),
                  [products |-> products, feedbacks |-> feedbacks, auditLog |-> auditLog],
                  ok)
    IN  /\ ok => Len(st.auditLog) <= MaxAudit
        /\ products' = st.products
        /\ feedbacks' = st.feedbacks
        /\ auditLog' = st.auditLog
        /\ last' = Outcome("monthlyCleanup", NoUser, AuditError(ok))
        /\ UNCHANGED <<users, sessions, counter, now, calls>>

----------------------------------------------------------------------------
(* addFeedback, deleteFeedback and the sweep await by await: a call is in calls
   from its first await to its return, and pc names the await it is about to
   make *)

Call(op, pc, user, id, productId, rating, comment, ids) ==
    [op |-> op, pc |-> pc, user |-> user, id |-> id, productId |-> productId,
     rating |-> rating, comment |-> comment, avg |-> Zero, ids |-> ids]

At(c, op, pc) == c \in DOMAIN calls /\ calls[c].op = op /\ calls[c].pc = pc

\* the guards and Product.findById
StartAddFeedback(c, token, productId, rating, comment) ==
    LET user == Context(token, now) IN
    /\ c \notin DOMAIN calls
    /\ IF NotPlainUser(user) THEN Reject("addFeedback", user, "Unauthorized")
       ELSE IF RatingOutOfRange(rating)
            THEN Reject("addFeedback", user, "Rating must be 1-5")
       ELSE IF productId \notin DOMAIN products
            THEN Reject("addFeedback", user, "Product not found")
       ELSE /\ calls' = Insert(calls, c,
                            Call("addFeedback", "save", user, Undefined, productId,
                                 rating, Coalesce(comment, Null), <<>>))
            /\ UNCHANGED <<users, products, feedbacks, auditLog, sessions, counter,
                           now, last>>

\* feedback.save()
SaveFeedback(c) ==
    /\ At(c, "addFeedback", "save")
    /\ feedbacks' = Insert(feedbacks, counter.feedback,
                        [userId |-> calls[c].user.id, productId |-> calls[c].productId,
                         rating |-> calls[c].rating, comment |-> calls[c].comment])
    /\ counter' = [counter EXCEPT !.feedback = @ + 1]
    /\ calls' = [calls EXCEPT ![c].pc = "find", ![c].id = counter.feedback]
    /\ UNCHANGED <<users, products, auditLog, sessions, now, last>>

\* Feedback.findById and the guard
StartDeleteFeedback(c, token, id) ==
    LET user == Context(token, now) IN
    /\ c \notin DOMAIN calls
    /\ IF id \notin DOMAIN feedbacks THEN Reject("deleteFeedback", user, "Unauthorized")
       ELSE IF user = NoUser THEN Reject("deleteFeedback", user, "TypeError")
       ELSE IF user.role # "admin" /\ NotOwner(feedbacks[id], user)
            THEN Reject("deleteFeedback", user, "Unauthorized")
       ELSE /\ calls' = Insert(calls, c,
                            Call("deleteFeedback", "delete", user, id,
                                 feedbacks[id].productId, feedbacks[id].rating,
                                 feedbacks[id].comment, <<>>))
            /\ UNCHANGED <<users, products, feedbacks, auditLog, sessions, counter,
                           now, last>>

\* Feedback.findByIdAndDelete(id)
DeleteFeedbackRow(c) ==
    /\ At(c, "deleteFeedback", "delete")
    /\ feedbacks' = Remove(feedbacks, {calls[c].id})
    /\ calls' = [calls EXCEPT ![c].pc = "find"]
    /\ UNCHANGED <<users, products, auditLog, sessions, counter, now, last>>

\* updateAverageRating: Feedback.find({ productId }) and the mean of what it read
FindFeedbacks(c) ==
    /\ c \in DOMAIN calls /\ calls[c].pc = "find"
    /\ calls[c].op \in {"addFeedback", "deleteFeedback"}
    /\ calls' = [calls EXCEPT ![c].pc = "update",
                              ![c].avg = Average(feedbacks, calls[c].productId)]
    /\ UNCHANGED <<users, products, feedbacks, auditLog, sessions, counter, now, last>>

\* updateAverageRating: Product.findByIdAndUpdate(productId, { averageRating: avg })
WriteAverage(c) ==
    /\ c \in DOMAIN calls /\ calls[c].pc = "update"
    /\ products' = IF calls[c].productId \in DOMAIN products
                   THEN [products EXCEPT ![calls[c].productId].averageRating =
                                            calls[c].avg]
                   ELSE products
    /\ calls' = [calls EXCEPT ![c].pc = "log"]
    /\ UNCHANGED <<users, feedbacks, auditLog, sessions, counter, now, last>>

\* logAudit and the return
LogFeedback(c, ok) ==
    /\ c \in DOMAIN calls /\ calls[c].pc = "log"
    /\ calls[c].op \in {"addFeedback", "deleteFeedback"}
    /\ auditLog' = LogAudit(auditLog, calls[c].user, calls[c].op,
                       IF calls[c].op = "addFeedback"
                       THEN "Added feedback for product " \o ToString(calls[c].productId)
                               \o ": " \o ToString(calls[c].rating) \o " stars"
                       ELSE "Deleted feedback " \o ToString(calls[c].id)
                               \o " for product " \o ToString(calls[c].productId),
                       ok)
    /\ last' = Outcome(calls[c].op, calls[c].user, AuditError(ok))
    /\ calls' = Remove(calls, {c})
    /\ UNCHANGED <<users, products, feedbacks, sessions, counter, now>>

\* the loop goes on with the products left, or the callback returns
SweepOn(c, ids) ==
    IF ids = <<>>
    THEN /\ calls' = Remove(calls, {c})
         /\ last' = Outcome("monthlyCleanup", NoUser, OK)
    ELSE /\ calls' = [calls EXCEPT ![c].pc = "find", ![c].ids = ids]
         /\ UNCHANGED last

\* Product.find()
StartSweep(c) ==
    /\ c \notin DOMAIN calls
    /\ LET ids == Found(DOMAIN products)
       IN  IF ids = <<>>
           THEN calls' = calls /\ last' = Outcome("monthlyCleanup", NoUser, OK)
           ELSE /\ calls' = Insert(calls, c,
                                Call("monthlyCleanup", "find", NoUser, Undefined,
                                     Undefined, Undefined, Null, ids))
                /\ UNCHANGED last
    /\ UNCHANGED <<users, products, feedbacks, auditLog, sessions, counter, now>>

\* Feedback.find({ productId: product._id }) and the test
SweepFind(c) ==
    /\ At(c, "monthlyCleanup", "find")
    /\ IF Sweepable(feedbacks, Head(calls[c].ids))
       THEN calls' = [calls EXCEPT ![c].pc = "deleteMany"] /\ UNCHANGED last
       ELSE SweepOn(c, Tail(calls[c].ids))
    /\ UNCHANGED <<users, products, feedbacks, auditLog, sessions, counter, now>>

\* Feedback.deleteMany({ productId: product._id })
SweepDeleteMany(c) ==
    /\ At(c, "monthlyCleanup", "deleteMany")
    /\ feedbacks' = Remove(feedbacks, FeedbacksOf(feedbacks, Head(calls[c].ids)))
    /\ calls' = [calls EXCEPT ![c].pc = "delete"]
    /\ UNCHANGED <<users, products, auditLog, sessions, counter, now, last>>

\* Product.findByIdAndDelete(product._id)
SweepDeleteProduct(c) ==
    /\ At(c, "monthlyCleanup", "delete")
    /\ products' = Remove(products, {Head(calls[c].ids)})
    /\ calls' = [calls EXCEPT ![c].pc = "log"]
    /\ UNCHANGED <<users, feedbacks, auditLog, sessions, counter, now, last>>

\* logAudit(null, 'monthlyCleanup', ...)
SweepLog(c, ok) ==
    /\ At(c, "monthlyCleanup", "log")
    /\ auditLog' = LogAudit(auditLog, NoUser, "monthlyCleanup",
                       "Deleted product " \o ToString(Head(calls[c].ids))
                          \o " with all feedback <=1", ok)
    /\ SweepOn(c, Tail(calls[c].ids))
    /\ UNCHANGED <<users, products, feedbacks, sessions, counter, now>>

----------------------------------------------------------------------------
(* Accounts: registration, verification, login, password reset *)

\* a registered row: new User({ ..., verified: false, verificationToken })
NewUser(email, password, role, verificationToken) ==
    [email |-> email, password |-> Hash(password), role |-> role,
     verified |-> FALSE, verificationToken |-> verificationToken,
     resetToken |-> Undefined, resetTokenExpiry |-> Undefined]

\* the lookup that finds no row
ByEmailNone(email) == {}

\* User.findOne({ email }): the ids of the rows with that email (at most one)
ByEmail(email) == {u \in DOMAIN users : users[u].email = email}
ByVerificationToken(token) == {u \in DOMAIN users : users[u].verificationToken = token}

\* the comparison that still accepts the token at its expiry
ExpiredAfter(expiry, t) == expiry < t

\* resetTokenExpiry: { $gt: Date.now() } fails from the expiry on
Expired(expiry, t) == expiry <= t

\* User.findOne({ resetToken: token, resetTokenExpiry: { $gt: Date.now() } })
ByResetToken(token, t) ==
    {u \in DOMAIN users :
        users[u].resetToken = token /\ ~Expired(users[u].resetTokenExpiry, t)}

\* user.verificationToken || crypto.randomBytes(32).toString('hex')
VerificationTokenOr(row, fresh) ==
    IF row.verificationToken # Undefined THEN row.verificationToken ELSE fresh

\* login as first written, without the verified test
LoginOpen(row) == FALSE

\* if (!user.verified) throw new Error('Email not verified')
LoginBlocked(row) == ~row.verified

\* user.resetToken = undefined; user.resetTokenExpiry = undefined
ClearResetToken(row) ==
    [row EXCEPT !.resetToken = Undefined, !.resetTokenExpiry = Undefined]

\* the verification that leaves the token in the row
VerifiedKeepToken(row) == [row EXCEPT !.verified = TRUE]

\* user.verified = true; user.verificationToken = undefined
Verified(row) == [row EXCEPT !.verified = TRUE, !.verificationToken = Undefined]

\* register saves the row, sends the verification mail through
\* sendVerificationEmail (whose failure is not caught: the row stays and the
\* request ends with the transport's error), signs the token and logs
Register(email, password, role, mailOk, ok) ==
    IF ByEmail(email) # {} THEN Reject("register", NoUser, "Email already registered")
    ELSE IF role \notin Roles THEN Reject("register", NoUser, "ValidationError")
    ELSE LET id == counter.user
             fresh == counter.rand
             row == NewUser(email, password, role, fresh)
             jwt == JwtSign(id, role, now)
         IN  /\ users' = Insert(users, id,
                    [row EXCEPT !.verificationToken = VerificationTokenOr(row, fresh + 1)])
             /\ counter' = [counter EXCEPT !.user = @ + 1, !.rand = @ + 1]
             /\ IF mailOk
                THEN /\ AuditMay(ok)
                     /\ sessions' = sessions \cup {jwt}
                     /\ auditLog' = LogAudit(auditLog, [id |-> id], "register",
                                       "User registered with email: " \o email, ok)
                     /\ last' = [Outcome("register", NoUser, AuditError(ok))
                                   EXCEPT !.token = jwt, !.mail = "sent"]
                ELSE /\ last' = [Outcome("register", NoUser, "sendMail failed")
                                   EXCEPT !.mail = "failed"]
                     /\ UNCHANGED <<sessions, auditLog>>
             /\ UNCHANGED <<products, feedbacks, now, calls>>

SendVerificationEmail(email, mailOk) ==
    IF ByEmail(email) = {} \/ \E u \in ByEmail(email) : users[u].verified
    THEN Reject("sendVerificationEmail", NoUser, OK)
    ELSE LET u == CHOOSE u \in ByEmail(email) : TRUE
             fresh == counter.rand
         IN  /\ users' = [users EXCEPT ![u].verificationToken =
                                          VerificationTokenOr(users[u], fresh)]
             /\ counter' = IF users[u].verificationToken = Undefined
                           THEN [counter EXCEPT !.rand = @ + 1]
                           ELSE counter
             /\ last' = IF mailOk
                        THEN [Outcome("sendVerificationEmail", NoUser, OK)
                                EXCEPT !.mail = "sent"]
                        ELSE [Outcome("sendVerificationEmail", NoUser, "sendMail failed")
                                EXCEPT !.mail = "failed"]
             /\ UNCHANGED <<products, feedbacks, auditLog, sessions, now, calls>>

VerifyEmail(token) ==
    IF ByVerificationToken(token) = {}
    THEN Reject("verifyEmail", NoUser, "Invalid or expired token")
    ELSE LET u == CHOOSE u \in ByVerificationToken(token) : TRUE
         IN  /\ users' = [users EXCEPT ![u] = Verified(@)]
             /\ last' = Outcome("verifyEmail", NoUser, OK)
             /\ UNCHANGED <<products, feedbacks, auditLog, sessions, counter, now, calls>>

Login(email, password) ==
    IF ByEmail(email) = {} \/ \E u \in ByEmail(email) : ~Compare(password, users[u].password)
    THEN Reject("login", NoUser, "Invalid credentials")
    ELSE LET u == CHOOSE u \in ByEmail(email) : TRUE
             jwt == JwtSign(u, users[u].role, now)
         IN  IF LoginBlocked(users[u])
             THEN Reject("login", NoUser, "Email not verified")
             ELSE /\ sessions' = sessions \cup {jwt}
                  /\ last' = [Outcome("login", NoUser, OK) EXCEPT !.token = jwt]
                  /\ UNCHANGED <<users, products, feedbacks, auditLog, counter, now, calls>>

RequestPasswordReset(email, mailOk) ==
    IF ByEmail(email) = {} THEN Reject("requestPasswordReset", NoUser, OK)
    ELSE LET u == CHOOSE u \in ByEmail(email) : TRUE
         IN  /\ users' = [users EXCEPT ![u].resetToken = counter.rand,
                                       ![u].resetTokenExpiry = now + ResetTokenTtl]
             /\ counter' = [counter EXCEPT !.rand = @ + 1]
             /\ last' = IF mailOk
                        THEN [Outcome("requestPasswordReset", NoUser, OK)
                                EXCEPT !.mail = "sent"]
                        ELSE [Outcome("requestPasswordReset", NoUser, "sendMail failed")
                                EXCEPT !.mail = "failed"]
             /\ UNCHANGED <<products, feedbacks, auditLog, sessions, now, calls>>

ResetPassword(token, newPassword) ==
    IF ByResetToken(token, now) = {}
    THEN Reject("resetPassword", NoUser, "Invalid or expired token")
    ELSE LET u == CHOOSE u \in ByResetToken(token, now) : TRUE
         IN  /\ users' = [users EXCEPT
                            ![u] = ClearResetToken([@ EXCEPT !.password = Hash(newPassword)])]
             /\ last' = Outcome("resetPassword", NoUser, OK)
             /\ UNCHANGED <<products, feedbacks, auditLog, sessions, counter, now, calls>>

\* time passes between two requests
Tick(d) ==
    /\ now' = now + d
    /\ UNCHANGED <<users, products, feedbacks, auditLog, sessions, counter, last, calls>>

----------------------------------------------------------------------------
(* Inputs of the requests *)

Tokens == sessions \cup {NoToken}
Emails == {"e1", "e2"}
Passwords == {"p1", "p2"}
\* the values crypto.randomBytes has returned, and a string it never returns
Randoms == 1 .. (counter.rand - 1) \cup {-1}
HalfHour == ResetTokenTtl \div 2
UserIds == 1 .. MaxUsers
ProductIds == 1 .. MaxProducts
FeedbackIds == 1 .. MaxFeedbacks

\* a request that draws a fresh id or random value is taken only while the model
\* has some left
Room(next, max) == counter' # counter => next <= max

\* AuditLog.create succeeds while the model's log has room
AuditUp == Len(auditLog) < MaxAudit

\* AuditLog.create fails: the log is written by the resolvers and read by none,
\* so the rows of the other collections do not depend on it
AuditDown == FALSE

\* The accounts behind the product and feedback requests: user 1 registered at
\* time 0, verified the email and logged in again a day later, when the token
\* register gave them had expired; the admin 2 and the user 3 registered then.
Registered ==
    /\ now = JwtTtl
    /\ users = [i \in 1 .. 3 |->
                  IF i = 1
                  THEN [NewUser("e1", "p1", "user", Undefined) EXCEPT !.verified = TRUE]
                  ELSE NewUser(IF i = 2 THEN "e2" ELSE "e3", "p1",
                               IF i = 2 THEN "admin" ELSE "user", i)]
    /\ sessions = {JwtSign(1, "user", 0), JwtSign(1, "user", JwtTtl),
                   JwtSign(2, "admin", JwtTtl), JwtSign(3, "user", JwtTtl)}
    /\ auditLog = <<>>

Admin == JwtSign(2, "admin", JwtTtl)

----------------------------------------------------------------------------
(* The product and feedback requests, from an empty catalogue.  The audit
   store takes the entries of addProduct, addFeedback and deleteFeedback and
   is down for the other requests, whose logAudit swallows the failure. *)

Init ==
    /\ Registered
    /\ calls = <<>>
    /\ products = <<>>
    /\ feedbacks = <<>>
    /\ counter = [user |-> 4, product |-> 1, feedback |-> 1, rand |-> 4]
    /\ last = Outcome("register", NoUser, OK)

Next ==
    \/ \E t \in Tokens :
          AddProduct(t, "n1", AuditUp) /\ Room(counter.product, MaxProducts)
    \/ \E t \in Tokens, p \in ProductIds, r \in {0, 5, 6} :
          AddFeedback(t, p, r, None, AuditUp) /\ Room(counter.feedback, MaxFeedbacks)
    \/ \E t \in Tokens : UpdateProduct(t, 1, "n2")
    \/ \E t \in Tokens, f \in FeedbackIds,
          r \in {1} :
          UpdateFeedback(t, f, Some(r), Some("c1"), AuditDown)
    \/ \E t \in Tokens : UpdateUser(t, 3, None, Some("admin"))
    \/ \E t \in Tokens, p \in ProductIds : DeleteProduct(t, p, AuditDown)
    \/ \E t \in Tokens, f \in FeedbackIds : DeleteFeedback(t, f, AuditUp)
    \/ \E t \in Tokens : DeleteUser(t, 3, AuditDown)
    \/ \E t \in Tokens : QueryUsers(t)
    \/ QueryProducts

Spec == Init /\ [][Next]_vars

----------------------------------------------------------------------------
(* Feedback requests alone, over a catalogue of two products *)

InitFb ==
    /\ Registered
    /\ calls = <<>>
    /\ products = [p \in 1 .. 2 |-> [name |-> "n1", averageRating |-> Zero]]
    /\ feedbacks = <<>>
    /\ counter = [user |-> 4, product |-> 3, feedback |-> 1, rand |-> 4]
    /\ last = Outcome("addProduct", Context(Admin, now), OK)

\* the requests come from user 1, the admin and a caller without a token
FbTokens == {JwtSign(1, "user", JwtTtl), Admin, NoToken}

NextFb ==
    \/ \E t \in FbTokens, p \in DOMAIN products, r \in {0, 3, 4, 5, 6} :
          AddFeedback(t, p, r, None, AuditDown) /\ Room(counter.feedback, MaxRated)
    \/ \E t \in FbTokens, f \in 1 .. MaxRated, r \in {None, Some(3), Some(6)} :
          UpdateFeedback(t, f, r, None, AuditDown)
    \/ \E t \in FbTokens, f \in 1 .. MaxRated : DeleteFeedback(t, f, AuditDown)

SpecFb == InitFb /\ [][NextFb]_vars

----------------------------------------------------------------------------
(* Deletions by the admin, over the same catalogue with feedback of two users *)

CascadeTokens == {JwtSign(1, "user", JwtTtl), JwtSign(3, "user", JwtTtl)}

NextCascade ==
    \/ \E t \in CascadeTokens, p \in 1 .. 2 :
          AddFeedback(t, p, 5, None, AuditDown) /\ Room(counter.feedback, MaxRated)
    \/ \E t \in {Admin} \cup CascadeTokens, p \in 1 .. 2 : DeleteProduct(t, p, AuditDown)
    \/ \E u \in {1, 3} : DeleteUser(Admin, u, AuditDown)

SpecCascade == InitFb /\ [][NextCascade]_vars

----------------------------------------------------------------------------
(* The sweep over the same catalogue, with low ratings from user 1 *)

NextSweep ==
    \/ \E p \in 1 .. 2, r \in {1, 2} :
          /\ AddFeedback(JwtSign(1, "user", JwtTtl), p, r, None, AuditDown)
          /\ Room(counter.feedback, MaxSwept)
    \/ \E f \in 1 .. MaxSwept :
          UpdateFeedback(JwtSign(1, "user", JwtTtl), f, Some(0), None, AuditDown)
    \/ CleanupSweep(AuditUp)

SpecSweep == InitFb /\ [][NextSweep]_vars

----------------------------------------------------------------------------
(* The audited requests and the sweep from the empty catalogue; user 1 rates,
   the admin manages.  The audit store is up or down for register and
   addProduct and down for the requests that follow them *)

User1 == JwtSign(1, "user", JwtTtl)

NextAudit ==
    \/ \E e \in {"e1", "e4"}, ok \in BOOLEAN :
          Register(e, "p1", "user", TRUE, ok) /\ Room(counter.user, MaxUsers + 1)
    \/ \E ok \in BOOLEAN :
          AddProduct(Admin, "n1", ok) /\ Room(counter.product, MaxProducts)
    \/ \E p \in ProductIds :
          AddFeedback(User1, p, 1, None, AuditDown) /\ Room(counter.feedback, MaxSwept)
    \/ UpdateFeedback(User1, 1, Some(0), None, AuditDown)
    \/ \E p \in ProductIds : DeleteProduct(Admin, p, AuditDown)
    \/ \E t \in {User1, Admin} : DeleteFeedback(t, 1, AuditDown)
    \/ DeleteUser(Admin, 3, AuditDown)
    \/ CleanupSweep(AuditDown)

SpecAudit == Init /\ [][NextAudit]_vars

----------------------------------------------------------------------------
(* Feedback requests of user 1 on product 1 that overlap *)

CallIds == 1 .. MaxCalls
Saving == {c \in DOMAIN calls : calls[c].pc = "save"}

NextRace ==
    \/ \E c \in CallIds, r \in {1, 5} :
          /\ StartAddFeedback(c, User1, 1, r, None)
          /\ counter.feedback + Cardinality(Saving) <= MaxRated
    \/ \E c \in CallIds, f \in 1 .. MaxRated : StartDeleteFeedback(c, User1, f)
    \/ \E c \in CallIds : SaveFeedback(c)
    \/ \E c \in CallIds : DeleteFeedbackRow(c)
    \/ \E c \in CallIds : FindFeedbacks(c)
    \/ \E c \in CallIds : WriteAverage(c)
    \/ \E c \in CallIds : LogFeedback(c, AuditDown)

SpecRace == InitFb /\ [][NextRace]_vars

----------------------------------------------------------------------------
(* Runs of the sweep that overlap, over the rows user 1 added before them *)

NextSweeps ==
    \/ \E p \in 1 .. 2, r \in {1, 2} :
          /\ calls = <<>>
          /\ AddFeedback(User1, p, r, None, AuditDown)
          /\ Room(counter.feedback, MaxSwept)
    \/ \E c \in CallIds : StartSweep(c)
    \/ \E c \in CallIds : SweepFind(c)
    \/ \E c \in CallIds : SweepDeleteMany(c)
    \/ \E c \in CallIds : SweepDeleteProduct(c)
    \/ \E c \in CallIds : SweepLog(c, TRUE)

SpecSweeps == InitFb /\ [][NextSweeps]_vars

----------------------------------------------------------------------------
(* The account requests, from an empty database *)

InitAuth ==
    /\ calls = <<>>
    /\ users = <<>> /\ products = <<>> /\ feedbacks = <<>> /\ auditLog = <<>>
    /\ sessions = {}
    /\ counter = [user |-> 1, product |-> 1, feedback |-> 1, rand |-> 1]
    /\ now = 0
    /\ last = Outcome("none", NoUser, OK)

NextAuth ==
    \/ \E e \in Emails, r \in Roles \cup {"guest"}, mailOk \in BOOLEAN :
          /\ Register(e, "p1", r, mailOk, AuditUp)
          /\ Room(counter.user, MaxAccounts) /\ Room(counter.rand, MaxRand)
    \/ \E e \in Emails, mailOk \in BOOLEAN :
          SendVerificationEmail(e, mailOk) /\ Room(counter.rand, MaxRand)
    \/ \E v \in Randoms : VerifyEmail(v)
    \/ \E e \in Emails, pw \in Passwords : Login(e, pw)
    \/ \E e \in Emails, mailOk \in BOOLEAN :
          RequestPasswordReset(e, mailOk) /\ Room(counter.rand, MaxRand)
    \/ \E v \in Randoms : ResetPassword(v, "p2")
    \/ \E t \in Tokens, u \in 1 .. MaxAccounts, r \in Roles :
          UpdateUser(t, u, None, Some(r))

SpecAuth == InitAuth /\ [][NextAuth]_vars

----------------------------------------------------------------------------
(* Password reset over time, for the registered accounts *)

InitReset ==
    /\ Registered
    /\ calls = <<>>
    /\ products = <<>> /\ feedbacks = <<>>
    /\ counter = [user |-> 4, product |-> 1, feedback |-> 1, rand |-> 4]
    /\ last = Outcome("register", NoUser, OK)

NextReset ==
    \/ \E e \in {"e1", "e3", "e9"}, mailOk \in BOOLEAN :
          RequestPasswordReset(e, mailOk) /\ Room(counter.rand - 3, MaxResets)
    \/ \E v \in Randoms : ResetPassword(v, "p2")
    \/ Tick(HalfHour) /\ now + HalfHour <= JwtTtl + MaxTicks * HalfHour

SpecReset == InitReset /\ [][NextReset]_vars

----------------------------------------------------------------------------
(* Claims *)

Rows == <<users, products, feedbacks, auditLog>>
RatingsOf(p) == {f \in DOMAIN feedbacks : feedbacks[f].productId = p}
IsMean(avg, S) ==
    /\ avg[2] > 0
    /\ IF S = {} THEN avg[1] = 0
       ELSE avg[1] * Cardinality(S) = SumRatings(feedbacks, S) * avg[2]
Stars(S) == {<<f, feedbacks[f].rating>> : f \in S}

\* C1: after any sequence of addFeedback, updateFeedback and deleteFeedback
\* requests, each run to completion, the cached averageRating of every product
\* is the arithmetic mean of the ratings of its Feedback rows, and 0 when it has
\* none; ratings 3, 4, 5 give 4.0 and ratings 3, 4 give 3.5.
C1_AverageIsMean ==
    \A p \in DOMAIN products :
        LET avg == products[p].averageRating
            S == RatingsOf(p)
            stars == {feedbacks[f].rating : f \in S}
        IN  /\ IsMean(avg, S)
            /\ (Cardinality(S) = 3 /\ stars = {3, 4, 5}) => avg = <<4, 1>>
            /\ (Cardinality(S) = 2 /\ stars = {3, 4}) => avg = <<7, 2>>
            /\ S = {} => avg = <<0, 1>>

\* ratings [3, 4] and then addFeedback(rating = 5), then that row deleted
C1_Witness ==
    /\ last.op = "deleteFeedback" /\ last.err = OK
    /\ counter.feedback = 4
    /\ \E p \in DOMAIN products :
          /\ Stars(RatingsOf(p)) = {<<1, 3>>, <<2, 4>>}
          /\ products[p].averageRating = <<7, 2>>

\* C2: every stored Feedback row has 1 <= rating <= 5 (an addFeedback or
\* updateFeedback with a rating outside 1..5 writes nothing).
C2_RatingInRange ==
    \A f \in DOMAIN feedbacks :
        feedbacks[f].rating >= MinRating /\ feedbacks[f].rating <= MaxRating

AdminOnly == {"addProduct", "updateProduct", "deleteProduct", "updateUser",
              "deleteUser", "users"}

\* C3: a request of an admin-only resolver (addProduct, updateProduct,
\* deleteProduct, updateUser, deleteUser, users) by a caller whose token role is
\* not admin, and an addFeedback by a caller whose token role is admin, ends
\* with Unauthorized and leaves the User, Product, Feedback and AuditLog rows
\* as they were.
C3_RoleGuard ==
    [][(\/ last'.op \in AdminOnly /\ last'.caller = "user"
        \/ last'.op = "addFeedback" /\ last'.caller = "admin")
       => (last'.err = "Unauthorized" /\ UNCHANGED Rows)]_vars

C3_Witness ==
    /\ last.op = "deleteUser" /\ last.caller = "user" /\ last.err = "Unauthorized"
    /\ DOMAIN users = 1 .. 3
    /\ DOMAIN products # {} /\ DOMAIN feedbacks # {} /\ auditLog # <<>>

\* C4: updateFeedback or deleteFeedback on an existing row by a caller with a
\* valid token who is neither the row's owner nor an admin ends with
\* Unauthorized and leaves the Feedback rows, the products' averageRating and
\* the AuditLog as they were.
C4_OwnerGuard ==
    [][(last'.op \in {"updateFeedback", "deleteFeedback"} /\ last'.caller = "user") =>
       \A t \in Tokens, f \in DOMAIN feedbacks :
          LET user == Context(t, now) IN
          (/\ user # NoUser /\ user.role # "admin"
           /\ feedbacks[f].userId # user.id
           /\ \/ \E r \in {None, Some(1), Some(6)}, c \in {None, Some("c1")} :
                    UpdateFeedback(t, f, r, c, AuditUp)
              \/ DeleteFeedback(t, f, AuditUp))
          => (last'.err = "Unauthorized" /\ UNCHANGED <<feedbacks, products, auditLog>>)
      ]_vars

\* every feedback id of the model is a row, so the rejected call named one
C4_Witness ==
    /\ last.op = "deleteFeedback" /\ last.caller = "user" /\ last.err = "Unauthorized"
    /\ DOMAIN feedbacks = FeedbackIds
    /\ auditLog # <<>>

Guarded == {"addProduct", "addFeedback", "updateProduct", "updateFeedback",
            "updateUser", "deleteProduct", "deleteFeedback", "deleteUser"}

\* C5: every guarded mutation called without a caller identity (missing, invalid
\* or expired token) ends with Unauthorized, and no User, Product, Feedback or
\* AuditLog row is created, changed or deleted.
C5_AbsentCaller ==
    [][(last'.op \in Guarded /\ last'.caller = "none")
       => (last'.err = "Unauthorized" /\ UNCHANGED Rows)]_vars

\* C6: after deleteProduct(id) no Feedback row has productId = id, after
\* deleteUser(id) no Feedback row has userId = id, and the Feedback rows of the
\* other products, or users, are as they were.
C6_Cascade ==
    [][(last'.op \in {"deleteProduct", "deleteUser"} /\ last'.err = OK) =>
       \A t \in Tokens, id \in 1 .. MaxUsers :
          /\ (DeleteProduct(t, id, AuditDown) /\ last'.err = OK) =>
                /\ \A f \in DOMAIN feedbacks' : feedbacks'[f].productId # id
                /\ \A f \in DOMAIN feedbacks : feedbacks[f].productId # id =>
                      f \in DOMAIN feedbacks' /\ feedbacks'[f] = feedbacks[f]
                /\ DOMAIN feedbacks' \subseteq DOMAIN feedbacks
          /\ (DeleteUser(t, id, AuditDown) /\ last'.err = OK) =>
                /\ \A f \in DOMAIN feedbacks' : feedbacks'[f].userId # id
                /\ \A f \in DOMAIN feedbacks : feedbacks[f].userId # id =>
                      f \in DOMAIN feedbacks' /\ feedbacks'[f] = feedbacks[f]
                /\ DOMAIN feedbacks' \subseteq DOMAIN feedbacks
      ]_vars

\* a user deleted with some of the three rows created, after a product was:
\* the rows left are of the other user and on the other product
C6_Witness ==
    /\ last.op = "deleteUser" /\ last.err = OK
    /\ counter.feedback = 4
    /\ Cardinality(DOMAIN feedbacks) = 1
    /\ Cardinality(DOMAIN products) = 1 /\ Cardinality(DOMAIN users) = 2
    /\ \A f \in DOMAIN feedbacks :
          feedbacks[f].productId \in DOMAIN products /\ feedbacks[f].userId \in DOMAIN users

\* C7: login returns a token only when a user with the email exists, the
\* password matches the stored hash and the user is verified; with matching
\* credentials and verified = false it ends with 'Email not verified', with a
\* wrong password or an unknown email with 'Invalid credentials'.
C7_Login ==
    [][last'.op = "login" =>
       \A e \in Emails, pw \in Passwords :
          Login(e, pw) =>
             LET U == {u \in DOMAIN users : users[u].email = e}
                 M == {u \in U : users[u].password = Hash(pw)}
             IN  /\ last'.token # NoToken <=> \E u \in M : users[u].verified
                 /\ last'.token # NoToken =>
                       last'.err = OK /\ last'.token.id \in M
                 /\ (M # {} /\ \A u \in M : ~users[u].verified) =>
                       last'.err = "Email not verified"
                 /\ M = {} => last'.err = "Invalid credentials"
                 /\ last'.err # OK => UNCHANGED <<users, sessions>>
      ]_vars

C7_Witness ==
    /\ last.op = "login" /\ last.err = "Email not verified" /\ last.token = NoToken
    /\ \E u \in DOMAIN users : users[u].verified

\* C8: no request returns a signed session token for a user whose verified
\* flag is false at that moment.
C8_TokenOnlyVerified ==
    last.token # NoToken =>
        last.token.id \in DOMAIN users /\ users[last.token.id].verified

\* C9: resetPassword with a token that is no user's resetToken, or whose
\* resetTokenExpiry is not in the future, fails and leaves every password as it
\* was; with a valid unexpired token it replaces that user's password and
\* clears the reset token, so that the token matches no row afterwards.
C9_ResetPassword ==
    [][last'.op = "resetPassword" =>
       \A v \in Randoms :
          ResetPassword(v, "p2") =>
             LET M == {u \in DOMAIN users :
                          users[u].resetToken = v /\ users[u].resetTokenExpiry > now}
             IN  IF M = {}
                 THEN last'.err = "Invalid or expired token" /\ users' = users
                 ELSE /\ last'.err = OK
                      /\ \E u \in M :
                            /\ users'[u].password = Hash("p2")
                            /\ users'[u].resetToken = Undefined
                            /\ \A w \in DOMAIN users \ {u} : users'[w] = users[w]
                      /\ \A w \in DOMAIN users' : users'[w].resetToken # v
                      /\ v < counter'.rand
      ]_vars

\* one reset has gone through, another token has run out, and a reset failed
C9_Witness ==
    /\ last.op = "resetPassword" /\ last.err = "Invalid or expired token"
    /\ \E u \in DOMAIN users :
          users[u].password = Hash("p2") /\ users[u].resetToken = Undefined
    /\ \E w \in DOMAIN users :
          users[w].resetToken # Undefined /\ users[w].resetTokenExpiry = now

\* C10: verified only moves from false to true: a row is created unverified,
\* becomes verified only by a verifyEmail that presents its current
\* verification token, which the call clears so that it matches no row
\* afterwards, and no request sets verified back to false.
C10_VerifiedOneWay ==
    [][/\ \A u \in DOMAIN users' \ DOMAIN users : ~users'[u].verified
       /\ \A u \in DOMAIN users :
             /\ users[u].verified => (u \in DOMAIN users' /\ users'[u].verified)
             /\ (~users[u].verified /\ u \in DOMAIN users' /\ users'[u].verified) =>
                   /\ last'.op = "verifyEmail" /\ last'.err = OK
                   /\ users[u].verificationToken # Undefined
                   /\ VerifyEmail(users[u].verificationToken)
                   /\ \A w \in DOMAIN users' :
                         users'[w].verificationToken # users[u].verificationToken
      ]_vars

\* a verified row went through updateUser and a password reset, and a token
\* presented to verifyEmail afterwards was refused
C10_Witness ==
    /\ last.op = "verifyEmail" /\ last.err = "Invalid or expired token"
    /\ \E u \in DOMAIN users :
          /\ users[u].verified /\ users[u].role = "admin"
          /\ users[u].password = Hash("p2")
    /\ \A u \in DOMAIN users : users[u].verified

\* the products the sweep deletes, from the rows before it
Low(p) ==
    /\ Cardinality(RatingsOf(p)) > 3
    /\ \A f \in RatingsOf(p) : feedbacks[f].rating <= 1
Doomed == {p \in DOMAIN products : Low(p)}
RatedAt(p, r) == {f \in RatingsOf(p) : feedbacks[f].rating = r}
Added(log1, log2) == SubSeq(log2, Len(log1) + 1, Len(log2))

\* C11: one run of the Cleanup Sweep, nothing interleaved, deletes exactly the
\* products with more than 3 Feedback rows that all have rating <= 1, and all of
\* their Feedback rows, appends one AuditLog entry with a null actor for each
\* deleted product, and leaves every other product and its feedback as it was:
\* 4 rows all rating 1 is deleted; ratings [1, 1, 1, 2] and 3 rows all rating 1
\* are left.
C11_CleanupSweep ==
    [][last'.op = "monthlyCleanup" =>
       LET new == Added(auditLog, auditLog')
       IN  /\ DOMAIN products' = DOMAIN products \ Doomed
           /\ \A p \in DOMAIN products' : products'[p] = products[p]
           /\ DOMAIN feedbacks' =
                 {f \in DOMAIN feedbacks : feedbacks[f].productId \notin Doomed}
           /\ \A f \in DOMAIN feedbacks' : feedbacks'[f] = feedbacks[f]
           /\ Len(auditLog') = Len(auditLog) + Cardinality(Doomed)
           /\ SubSeq(auditLog', 1, Len(auditLog)) = auditLog
           /\ \A i \in DOMAIN new :
                 new[i].userId = Undefined /\ new[i].action = "monthlyCleanup"
           /\ \A p \in Doomed :
                 Cardinality({i \in DOMAIN new : new[i].details =
                    "Deleted product " \o ToString(p) \o " with all feedback <=1"}) = 1
           /\ \A p \in DOMAIN products :
                 LET n == Cardinality(RatingsOf(p))
                     ones == Cardinality(RatedAt(p, 1))
                 IN  /\ (n = 4 /\ ones = 4) => p \notin DOMAIN products'
                     /\ (n = 4 /\ ones = 3 /\ Cardinality(RatedAt(p, 2)) = 1) =>
                           p \in DOMAIN products'
                     /\ (n = 3 /\ ones = 3) => p \in DOMAIN products'
      ]_vars

\* product 1 went with its four rows, which had ratings 1 and 0
C11_Witness ==
    /\ last.op = "monthlyCleanup"
    /\ DOMAIN products = {2} /\ feedbacks = <<>>
    /\ counter.feedback = 5
    /\ Len(auditLog) = 1 /\ auditLog[1].userId = Undefined

\* C12: when the AuditLog write fails in register, addProduct, addFeedback,
\* updateFeedback, deleteProduct, deleteFeedback, deleteUser or the Cleanup
\* Sweep, the operation still ends with its normal success result, the User,
\* Product and Feedback changes it made are kept, and nothing is appended.
C12_AuditBestEffort ==
    [][/\ auditLog' = auditLog
       /\ last'.op \in {"register", "addProduct", "addFeedback", "updateFeedback",
                        "deleteProduct", "deleteFeedback", "deleteUser",
                        "monthlyCleanup"}
       =>
       /\ (Register("e4", "p1", "user", TRUE, FALSE) /\ \A u \in DOMAIN users :
                                                          users[u].email # "e4") =>
             /\ last'.err = OK /\ last'.token = JwtSign(counter.user, "user", now)
             /\ DOMAIN users' = DOMAIN users \cup {counter.user}
             /\ users'[counter.user].email = "e4"
       /\ AddProduct(Admin, "n1", FALSE) =>
             /\ last'.err = OK
             /\ DOMAIN products' = DOMAIN products \cup {counter.product}
             /\ products'[counter.product].name = "n1"
       /\ \A p \in DOMAIN products :
             AddFeedback(User1, p, 1, None, FALSE) =>
                /\ last'.err = OK
                /\ DOMAIN feedbacks' = DOMAIN feedbacks \cup {counter.feedback}
                /\ feedbacks'[counter.feedback].rating = 1
                /\ feedbacks'[counter.feedback].productId = p
       /\ (UpdateFeedback(User1, 1, Some(0), None, FALSE) /\ 1 \in DOMAIN feedbacks) =>
             last'.err = OK /\ feedbacks'[1].rating = 0
       /\ \A p \in DOMAIN products :
             DeleteProduct(Admin, p, FALSE) =>
                last'.err = OK /\ p \notin DOMAIN products'
       /\ \A t \in {User1, Admin} :
             (DeleteFeedback(t, 1, FALSE) /\ 1 \in DOMAIN feedbacks) =>
                last'.err = OK /\ 1 \notin DOMAIN feedbacks'
       /\ (DeleteUser(Admin, 3, FALSE) /\ 3 \in DOMAIN users) =>
             last'.err = OK /\ 3 \notin DOMAIN users'
       /\ CleanupSweep(FALSE) =>
             /\ last'.err = OK
             /\ DOMAIN products' = DOMAIN products \ Doomed
             /\ \A f \in DOMAIN feedbacks' : feedbacks'[f].productId \notin Doomed
      ]_vars

\* the sweep has deleted product 1 with the audit store down all along
C12_Witness ==
    /\ last.op = "monthlyCleanup" /\ last.err = OK
    /\ auditLog = <<>>
    /\ counter.product = 2 /\ products = <<>>
    /\ counter.feedback = 5 /\ feedbacks = <<>>
    /\ DOMAIN users = {1, 2, 4}

\* C13: every mutation that succeeds and changes a User, Product or Feedback
\* row appends exactly one AuditLog entry naming the actor and the action, when
\* the audit write itself does not fail.
C13_AuditEveryChange ==
    [][(last'.err = OK /\ AuditUp /\
        <<users, products, feedbacks>>' # <<users, products, feedbacks>>) =>
       \A t \in Tokens :
          (\/ AddProduct(t, "n1", TRUE)
           \/ \E p \in ProductIds, r \in {0, 5, 6} : AddFeedback(t, p, r, None, TRUE)
           \/ UpdateProduct(t, 1, "n2")
           \/ \E f \in FeedbackIds : UpdateFeedback(t, f, Some(1), Some("c1"), TRUE)
           \/ UpdateUser(t, 3, None, Some("admin"))
           \/ \E p \in ProductIds : DeleteProduct(t, p, TRUE)
           \/ \E f \in FeedbackIds : DeleteFeedback(t, f, TRUE)
           \/ DeleteUser(t, 3, TRUE))
          => /\ Len(auditLog') = Len(auditLog) + 1
             /\ SubSeq(auditLog', 1, Len(auditLog)) = auditLog
             /\ auditLog'[Len(auditLog')].userId = Context(t, now).id
             /\ auditLog'[Len(auditLog')].action = last'.op
      ]_vars

\* C14: when sending the email fails during register, sendVerificationEmail or
\* requestPasswordReset, the mutation still ends with its normal result
\* (register returns the token and the user) and the rows it wrote stay; the
\* delivery failure is not returned to the caller.
C14_MailBestEffort ==
    [][last'.mail = "failed" =>
       /\ last'.err = OK
       /\ last'.op = "register" =>
             /\ last'.token = JwtSign(counter.user, last'.token.role, now)
             /\ counter.user \in DOMAIN users'
       /\ last'.op = "requestPasswordReset" =>
             \E u \in DOMAIN users' : users'[u].resetToken = counter.rand
      ]_vars

\* C15: after deleteUser(id) has completed, every product that had Feedback
\* rows of that user has an averageRating equal to the mean of its remaining
\* Feedback ratings, and 0 when none remain.
C15_DeleteUserAverages ==
    [][(last'.op = "deleteUser" /\ last'.err = OK) =>
       \A p \in DOMAIN products' :
          (\E f \in DOMAIN feedbacks \ DOMAIN feedbacks' : feedbacks[f].productId = p) =>
             LET S == FeedbacksOf(feedbacks', p)
                 avg == products'[p].averageRating
             IN  /\ avg[2] > 0
                 /\ IF S = {} THEN avg[1] = 0
                    ELSE avg[1] * Cardinality(S) = SumRatings(feedbacks', S) * avg[2]
      ]_vars

\* C16: a validation failure aborts the mutation before any write: register
\* with an email that already belongs to a user fails with 'Email already
\* registered', creates no User row, sends no email and appends no audit entry;
\* addFeedback with a productId that has no Product row fails with 'Product not
\* found', creates no Feedback row and changes no averageRating.
C16_ValidationFirst ==
    [][/\ last'.op = "register" =>
             \A e \in {"e1", "e4"}, ok \in BOOLEAN :
                (/\ Register(e, "p1", "user", TRUE, ok)
                 /\ \E u \in DOMAIN users : users[u].email = e)
                => /\ last'.err = "Email already registered"
                   /\ last'.mail = "none" /\ last'.token = NoToken
                   /\ UNCHANGED <<users, auditLog, sessions>>
       /\ last'.op = "addFeedback" =>
             \A p \in ProductIds, ok \in BOOLEAN :
                (AddFeedback(User1, p, 1, None, ok) /\ p \notin DOMAIN products)
                => /\ last'.err = "Product not found"
                   /\ UNCHANGED <<feedbacks, products, auditLog>>
      ]_vars

\* the email of the account registered a moment ago is refused, and the
\* product has been deleted with feedback on it
C16_Witness ==
    /\ last.op = "register" /\ last.err = "Email already registered"
    /\ 4 \in DOMAIN users /\ users[4].email = "e4"
    /\ products = <<>> /\ counter.product > 1 /\ counter.feedback > 1

\* C17: when feedback operations on the same product run concurrently, each as
\* the steps write-feedback, read-all-feedback, write-average, then in every
\* state where all of them have finished the product's averageRating is the
\* mean of its stored Feedback ratings.
C17_QuiescentAverage ==
    calls = <<>> =>
       \A p \in DOMAIN products : IsMean(products[p].averageRating, RatingsOf(p))

\* C18: updateFeedback changes a Feedback row only when the caller is its
\* owner: a caller with role admin who is not the owner is rejected with
\* Unauthorized and the row is unchanged, while the same admin can remove that
\* row with deleteFeedback.
C18_OnlyOwnerUpdates ==
    [][/\ (last'.op = "updateFeedback" /\ feedbacks' # feedbacks) =>
             \A t \in FbTokens, f \in DOMAIN feedbacks, r \in {None, Some(3), Some(6)} :
                UpdateFeedback(t, f, r, None, AuditDown) =>
                   /\ Context(t, now) # NoUser
                   /\ feedbacks[f].userId = Context(t, now).id
       /\ (last'.op \in {"updateFeedback", "deleteFeedback"} /\ last'.caller = "admin") =>
             \A f \in DOMAIN feedbacks :
                feedbacks[f].userId # Admin.id =>
                   /\ \A r \in {None, Some(3), Some(6)} :
                         UpdateFeedback(Admin, f, r, None, AuditDown) =>
                            (last'.err = "Unauthorized" /\ feedbacks' = feedbacks)
                   /\ DeleteFeedback(Admin, f, AuditDown) =>
                         (last'.err = OK /\ feedbacks' = Remove(feedbacks, {f}))
      ]_vars

\* every feedback id of the model is a row of user 1, and the admin's update of
\* one was refused
C18_Witness ==
    /\ last.op = "updateFeedback" /\ last.caller = "admin"
    /\ last.err = "Unauthorized"
    /\ DOMAIN feedbacks = 1 .. MaxRated
    /\ \A f \in DOMAIN feedbacks : feedbacks[f].userId = 1

\* what a single sweep leaves of the rows: the products that are not low, less
\* those a run has begun to delete, and their feedback
LowIn(fbs, p) ==
    /\ Cardinality({f \in DOMAIN fbs : fbs[f].productId = p}) > 3
    /\ \A f \in DOMAIN fbs : fbs[f].productId = p => fbs[f].rating <= 1
Deleting(cs) ==
    {Head(cs[c].ids) : c \in {x \in DOMAIN cs : cs[x].pc \in {"deleteMany", "delete"}}}
Leaves(prods, fbs, cs) ==
    LET gone == {p \in DOMAIN prods : LowIn(fbs, p)} \cup Deleting(cs)
    IN  <<Remove(prods, DOMAIN prods \cap gone),
          Remove(fbs, {f \in DOMAIN fbs : fbs[f].productId \in gone})>>
EntriesFor(log, p) ==
    {i \in DOMAIN log : /\ log[i].action = "monthlyCleanup"
                         /\ log[i].details = "Deleted product " \o ToString(p)
                                                \o " with all feedback <=1"}

\* C19: two runs of the Cleanup Sweep, one after the other or with their steps
\* interleaved, leave the same Product and Feedback rows as a single run, and
\* each deleted product gets exactly one AuditLog entry.
C19_SweepTwice ==
    [][/\ (calls # <<>> \/ calls' # <<>> \/ last'.op = "monthlyCleanup") =>
             Leaves(products', feedbacks', calls') = Leaves(products, feedbacks, calls)
       /\ (calls' = <<>> /\ last'.op = "monthlyCleanup") =>
             Leaves(products', feedbacks', calls') = <<products', feedbacks'>>
       /\ \A p \in 1 .. 2 :
             /\ Cardinality(EntriesFor(auditLog', p)) <= 1
             /\ (calls' = <<>> /\ p \notin DOMAIN products') =>
                   Cardinality(EntriesFor(auditLog', p)) = 1
      ]_vars

\* C20: in every state where no operation is in flight, every Feedback row
\* references a User row and a Product row that both exist, after any sequence
\* of addFeedback, deleteProduct and deleteUser, also when addFeedback comes
\* from a caller whose still-valid token was issued before their User row was
\* deleted.
C20_NoOrphanFeedback ==
    calls = <<>> =>
       \A f \in DOMAIN feedbacks :
          /\ feedbacks[f].userId \in DOMAIN users
          /\ feedbacks[f].productId \in DOMAIN products

\* C21: no request of an unauthenticated caller or of a caller with role user
\* (register, verifyEmail, login, password reset, feedback mutations) produces
\* a User row with role admin or a token that passes an admin-only guard: a row
\* becomes admin only through updateUser called by an admin, and a token with
\* role admin is signed only for a row that was admin already.
C21_NoSelfGrantedAdmin ==
    [][/\ (\E u \in DOMAIN users' :
              /\ users'[u].role = "admin"
              /\ u \in DOMAIN users => users[u].role # "admin")
          => (last'.op = "updateUser" /\ last'.caller = "admin")
       /\ \A t \in sessions' \ sessions :
             ~NotAdmin(Context(t, now)) =>
                (t.id \in DOMAIN users /\ users[t.id].role = "admin")
      ]_vars

====
